---- MODULE Spec2Model ----
(***************************************************************************)
(* Harusali: the conversation state manager (AppStateProvider of           *)
(* src/src/constants/emotions.ts, lines 16-259) and the response gateway   *)
(* (getGeminiResponse of src/src/api/gemini.ts, lines 1-193), with the     *)
(* screens' handlers that call them.                                       *)
(*                                                                         *)
(* JavaScript runs one task at a time: an async function runs without      *)
(* interruption up to its next await, so every action below is one such    *)
(* run.  AsyncStorage serves its requests in the order they were issued,   *)
(* so a write takes effect (or fails) in the step that issues it and the   *)
(* issuing function learns the outcome in the step that resumes it.        *)
(***************************************************************************)
EXTENDS Integers, Sequences, FiniteSets

\* ------------------------------------------------------------------ bounds
MaxDay      == 2   \* calendar days the clock may reach (0..MaxDay)
MaxNow      == 1   \* millisecond clock values (0..MaxNow)
MaxOps      == 2   \* operations the user starts in one behaviour
MaxRestarts == 2   \* process restarts in one behaviour
MaxFaults   == 1   \* storage requests that fail in one behaviour
MaxWait     == 2   \* how many timeout lengths one gateway call is followed for

\* ------------------------------------------------------------------ values
\* AsyncStorage.getItem / multiGet give null for a key that is not stored.
NULL == "<null>"
\* Number.NaN, the result of parseInt on a non-numeric string.
NaN == 0 - 1

HARU_EMOTIONS == {"neutral", "very_shy", "turned_away", "relaxed_smile", "half_turned"}
DEFAULT_EMOTION == "neutral"
GeminiStatuses == {"idle", "ok", "error", "overloaded"}

\* The fixed reply of the gateway when no key is configured, and the part of
\* it that updateApiKey looks for with String.includes.
NOT_CONFIGURED_TEXT == "API key is not set. Set it in the admin tools."
SENTINEL == "API key is not set"
\* A text the remote service may generate that contains the sentinel.
ECHO_TEXT == "Haru says: API key is not set"
REPLY_TEXT == "...hello, how was your day?"
RAW_TEXT == "not json at all"
FILLER_TEXT == "..."
LOCAL_TEXT == "thinking of something else"
CLIENT_ERROR_TEXT == "..."

Includes(text, part) ==
    part = SENTINEL /\ text \in {NOT_CONFIGURED_TEXT, ECHO_TEXT}

FALLBACK_MESSAGES ==
    << [text |-> "fallback: other thoughts", state |-> "half_turned"],
       [text |-> "fallback: out of breath", state |-> "very_shy"] >>

getRandomFallback(rnd) == FALLBACK_MESSAGES[rnd]

\* JavaScript truthiness of a stored string (null and "" are falsy).
Truthy(s) == s # NULL /\ s # ""

\* Number.prototype.toString and parseInt(s, 10) on the strings the model uses.
DigitStr == << "0", "1", "2", "3", "4", "5", "6", "7", "8", "9", "10", "11", "12" >>
NumToString(n) == IF n = NaN THEN "NaN" ELSE DigitStr[n + 1]
ParseInt(s) ==
    IF \E i \in 1..Len(DigitStr) : DigitStr[i] = s
    THEN (CHOOSE i \in 1..Len(DigitStr) : DigitStr[i] = s) - 1
    ELSE NaN
Inc(n) == IF n = NaN THEN NaN ELSE n + 1

\* new Date().toISOString().split('T')[0] on day d of the model's calendar.
DateStr == << "2024-01-01", "2024-01-02", "2024-01-03", "2024-01-04", "2024-01-05" >>
ISODate(d) == DateStr[d + 1]

\* JSON.stringify / JSON.parse of a list or a boolean; a stored text that is
\* not JSON makes JSON.parse throw.
JSONstringify(v) == [json |-> TRUE, val |-> v]
NOT_JSON == [json |-> FALSE, val |-> << >>]
ABSENT == [json |-> FALSE, val |-> << "absent" >>]
ParseThrows(s) == ~s.json
JSONparse(s) == s.val

\* ------------------------------------------------------------------ state
VARIABLES
    mem,        \* the provider's React state (AppState fields)
    store,      \* AsyncStorage: one string (or NULL) per storage key
    defaultKey, \* DEFAULT_GEMINI_API_KEY, fixed at build time
    day,        \* the calendar day of the wall clock
    now,        \* the millisecond of the wall clock
    load,       \* the loadState call of this process
    turns,      \* the sendUserMessage calls in flight
    reset,      \* the softReset / hardReset call in flight
    keyTask,    \* the updateApiKey call in flight
    dialog,     \* the confirmation Alert that is open
    gw,         \* a getGeminiResponse call on its own
    room,       \* RoomMissionScreen's component state and its handleComplete call
    ops,        \* operations started so far
    restarts,   \* process restarts so far
    faults,     \* storage requests that failed so far
    loadDays,   \* history: the days on which a load cycle ran / incremented dayCount
    ev          \* history: what the last step did

vars == << mem, store, defaultKey, day, now, load, turns, reset, keyTask,
           dialog, gw, room, ops, restarts, faults, loadDays, ev >>

STORAGE_KEYS ==
    { "dayCount", "lastVisitDate", "chatHistory", "missionHistory",
      "haruEmotion", "chatCount", "apiKey", "useAiResponse" }

\* The value multiGet / getItem report for a key that is not stored.
AbsentValue(k) == IF k \in {"chatHistory", "missionHistory"} THEN ABSENT ELSE NULL

EmptyStore == [k \in STORAGE_KEYS |-> AbsentValue(k)]

\* useState initial values of AppStateProvider.
DefaultMem ==
    [ isInitialized   |-> FALSE,
      dayCount        |-> 1,
      chatHistory     |-> << >>,
      missionHistory  |-> << >>,
      haruEmotion     |-> DEFAULT_EMOTION,
      chatCount       |-> 0,
      isAiThinking    |-> FALSE,
      useAiResponse   |-> TRUE,
      geminiStatus    |-> "idle",
      lastGeminiError |-> "" ]

\* setGeminiStatus(status, error = '')
setGeminiStatus(m, status, error) ==
    [m EXCEPT !.geminiStatus = status, !.lastGeminiError = error]

Idle == [pc |-> "none"]
\* RoomMissionScreen.tsx 413-416: useState initial values; calls and base
\* are history (completeMission calls of this flow, entries before it).
RoomIdle == [step |-> "selection", currentMission |-> NULL, imageUri |-> NULL,
             isSubmitting |-> FALSE, pc |-> "none", failed |-> FALSE,
             calls |-> 0, base |-> 0]
NoEv == [op |-> "none"]

\* A storage request may fail while the budget of failures lasts.
FailChoices == IF faults < MaxFaults THEN {FALSE, TRUE} ELSE {FALSE}
Count(b) == IF b THEN 1 ELSE 0

\* AsyncStorage.setItem / removeItem: the store after a request that
\* succeeded (failed = FALSE) or threw (failed = TRUE, nothing written).
setItemDropped(s, k, v, failed) == s
setItem(s, k, v, failed) == IF failed THEN s ELSE [s EXCEPT ![k] = v]
removeItem(s, k, failed) == IF failed THEN s ELSE [s EXCEPT ![k] = AbsentValue(k)]
multiRemove(s, keys, failed) ==
    IF failed THEN s
    ELSE [k \in STORAGE_KEYS |-> IF k \in keys THEN AbsentValue(k) ELSE s[k]]

\* ------------------------------------------------------------------ gateway
\* What the remote service can do to one request.  fetch either rejects
\* (aborted by the 15 s timer, or a network failure) or resolves with a
\* status; then the body is read.
HttpStatuses == {200, 404, 500, 503}
FetchOutcomes ==
    { [kind |-> "abort", status |-> 0], [kind |-> "reject", status |-> 0] }
    \cup { [kind |-> "response", status |-> s] : s \in HttpStatuses }

\* The generated text (data.candidates[0].content.parts[0].text): a text
\* JSON.parse rejects, the JSON text null, or a JSON object whose emotion and
\* response fields are present or not (NULL: the field is missing).
Payloads ==
    { [parse |-> "fail", raw |-> RAW_TEXT, emotion |-> NULL, response |-> NULL],
      [parse |-> "null", raw |-> "null", emotion |-> NULL, response |-> NULL] }
    \cup { [parse |-> "object", raw |-> "{json}", emotion |-> e, response |-> r] :
             e \in HARU_EMOTIONS \cup {"angry", NULL},
             r \in {NULL, "", REPLY_TEXT, ECHO_TEXT} }
NoPayload == [parse |-> "fail", raw |-> "", emotion |-> NULL, response |-> NULL]

\* Reading the body: apiResponse.text() / .json() rejects, or the reply has
\* no generated text, or it has one.
Bodies ==
    { [kind |-> "throws", payload |-> NoPayload],
      [kind |-> "missing", payload |-> NoPayload] }
    \cup { [kind |-> "text", payload |-> p] : p \in Payloads }

HttpErrorText(status) ==
    CASE status = 404 -> "404: Endpoint not found or model error."
      [] status = 500 -> "HTTP 500"
      [] OTHER -> "HTTP error"

Pending == [done |-> FALSE, threw |-> FALSE,
            reply |-> [text |-> "", state |-> "neutral"],
            status |-> "idle", error |-> ""]
Resolved(reply, status, error) ==
    [done |-> TRUE, threw |-> FALSE, reply |-> reply, status |-> status, error |-> error]

\* gemini.ts 76-96: the key is the stored override if there is one, else the
\* build-time default; with neither, the fixed reply and no request.
ResolveApiKey(storedKey, envKey) == IF Truthy(storedKey) THEN storedKey ELSE envKey
GwKeyStepAlwaysSend(storedKey, envKey) == Pending
GwKeyStep(storedKey, envKey) ==
    IF ~Truthy(ResolveApiKey(storedKey, envKey))
    THEN Resolved([text |-> NOT_CONFIGURED_TEXT, state |-> "neutral"],
                  "error", "API key is not set.")
    ELSE Pending

\* gemini.ts 103-118 and 178-192: fetch rejected (AbortError or not).
GwFetchStep(f, rnd) ==
    CASE f.kind = "abort" ->
           Resolved(getRandomFallback(rnd), "error", "Request timed out after 15s.")
      [] f.kind = "reject" ->
           Resolved(getRandomFallback(rnd), "error", "Network request failed.")
      [] OTHER -> Pending

\* gemini.ts 159-177: the generated text is parsed and validated.
GwParseReplyBug(p) ==
    IF p.parse = "object"
    THEN Resolved([text |-> IF p.response = NULL THEN FILLER_TEXT ELSE p.response,
                   state |-> IF p.emotion = NULL THEN "neutral" ELSE p.emotion],
                  "ok", "")
    ELSE Resolved([text |-> p.raw, state |-> "neutral"],
                  "error", "AI response JSON parse error.")
GwParseReplyAlwaysNeutral(p) ==
    IF p.parse = "object"
    THEN Resolved([text |-> IF Truthy(p.response) THEN p.response ELSE FILLER_TEXT,
                   state |-> "neutral"],
                  "ok", "")
    ELSE Resolved([text |-> p.raw, state |-> "neutral"],
                  "error", "AI response JSON parse error.")
GwParseReply(p) ==
    IF p.parse = "object"
    THEN Resolved([text |-> IF Truthy(p.response) THEN p.response ELSE FILLER_TEXT,
                   state |-> IF p.emotion \in HARU_EMOTIONS THEN p.emotion ELSE "neutral"],
                  "ok", "")
    ELSE \* JSON.parse threw, or reading a field of null threw
         Resolved([text |-> p.raw, state |-> "neutral"],
                  "error", "AI response JSON parse error.")

\* gemini.ts 120-177: the status and the body decide the reply.
GwBodyStepThrows(status, body, rnd) ==
    CASE body.kind = "throws" -> [Pending EXCEPT !.done = TRUE, !.threw = TRUE]
      [] body.kind # "throws" /\ status = 503 ->
           Resolved(getRandomFallback(rnd), "overloaded", "503: The model is overloaded.")
      [] body.kind # "throws" /\ status \notin {200, 503} ->
           Resolved(getRandomFallback(rnd), "error", HttpErrorText(status))
      [] body.kind = "missing" /\ status = 200 ->
           Resolved(getRandomFallback(rnd), "error", "Response text is missing.")
      [] OTHER -> GwParseReply(body.payload)
GwBodyStep(status, body, rnd) ==
    CASE body.kind = "throws" ->
           Resolved(getRandomFallback(rnd), "error", "Network request failed.")
      [] body.kind # "throws" /\ status = 503 ->
           Resolved(getRandomFallback(rnd), "overloaded", "503: The model is overloaded.")
      [] body.kind # "throws" /\ status \notin {200, 503} ->
           Resolved(getRandomFallback(rnd), "error", HttpErrorText(status))
      [] body.kind = "missing" /\ status = 200 ->
           Resolved(getRandomFallback(rnd), "error", "Response text is missing.")
      [] OTHER -> GwParseReply(body.payload)

Rnds == 1..Len(FALLBACK_MESSAGES)

\* A getGeminiResponse call on its own: gw.stored is what getItem gave,
\* gw.res the reply and the last health signal.
GwIdle == [pc |-> "idle", failed |-> FALSE, stored |-> NULL, status |-> 0,
           sent |-> FALSE, path |-> "none", payload |-> NoPayload, res |-> Pending,
           timer |-> "none", elapsed |-> 0]

\* gemini.ts 98-99: the timer set next to the request aborts it after 15 s.
TIMEOUT_MS == 15000
TimerDue(g) == g.timer = "armed" /\ g.elapsed >= TIMEOUT_MS

GwCall ==
    /\ gw.pc = "idle"
    /\ \E f \in FailChoices :
         /\ gw' = [gw EXCEPT !.pc = "g_key", !.failed = f, !.stored = store.apiKey]
         /\ faults' = faults + Count(f)
    /\ UNCHANGED << mem, store, defaultKey, room, day, now, load, turns, reset,
                    keyTask, dialog, ops, restarts, loadDays, ev >>

GwAfterKey ==
    /\ gw.pc = "g_key"
    /\ gw' = IF gw.failed
             THEN [gw EXCEPT !.pc = "done", !.path = "key read failed",
                             !.res = [Pending EXCEPT !.threw = TRUE]]
             ELSE LET r == GwKeyStep(gw.stored, defaultKey)
                  IN IF r.done
                     THEN [gw EXCEPT !.pc = "done", !.path = "no key", !.res = r]
                     ELSE [gw EXCEPT !.pc = "g_fetch", !.sent = TRUE,
                                     !.timer = "armed", !.elapsed = 0]
    /\ UNCHANGED << mem, store, defaultKey, room, day, now, load, turns, reset,
                    keyTask, dialog, ops, restarts, faults, loadDays, ev >>

\* Time passes while the request or the body read is pending.  A timer
\* that is due runs first: its callback aborts the request.
GwTick ==
    /\ gw.pc \in {"g_fetch", "g_body"}
    /\ ~TimerDue(gw)
    /\ gw.elapsed < MaxWait * TIMEOUT_MS
    /\ gw' = [gw EXCEPT !.elapsed = @ + TIMEOUT_MS]
    /\ UNCHANGED << mem, store, defaultKey, room, day, now, load, turns, reset,
                    keyTask, dialog, ops, restarts, faults, loadDays, ev >>

\* gemini.ts 104-118 and 178-180: fetch settles, by the abort of the timer
\* that is due or, before that, by the network; either way clearTimeout.
GwAfterFetch ==
    /\ gw.pc = "g_fetch"
    /\ \E f \in FetchOutcomes, rnd \in Rnds :
         /\ (f.kind = "abort") <=> TimerDue(gw)
         /\ LET r == GwFetchStep(f, rnd)
            IN gw' = IF r.done
                     THEN [gw EXCEPT !.pc = "done", !.path = f.kind, !.res = r,
                                     !.timer = "cleared"]
                     ELSE [gw EXCEPT !.pc = "g_body", !.status = f.status,
                                     !.timer = "cleared"]
    /\ UNCHANGED << mem, store, defaultKey, room, day, now, load, turns, reset,
                    keyTask, dialog, ops, restarts, faults, loadDays, ev >>

GwBodyPath(status, b) ==
    CASE b.kind = "throws" -> "body throws"
      [] b.kind # "throws" /\ status # 200 -> "http error"
      [] b.kind = "missing" /\ status = 200 -> "missing text"
      [] OTHER -> "generated text"

GwAfterBody ==
    /\ gw.pc = "g_body"
    /\ \E b \in Bodies, rnd \in Rnds :
         gw' = [gw EXCEPT !.pc = "done", !.path = GwBodyPath(gw.status, b),
                          !.payload = b.payload,
                          !.res = GwBodyStep(gw.status, b, rnd)]
    /\ UNCHANGED << mem, store, defaultKey, room, day, now, load, turns, reset,
                    keyTask, dialog, ops, restarts, faults, loadDays, ev >>

\* ------------------------------------------------------------------ loadState
\* emotions.ts 100-105: the day count this load settles on.
LoadDayCountAlways(storedDayCount, lastVisitDate, today) ==
    IF Truthy(storedDayCount) THEN Inc(ParseInt(storedDayCount)) ELSE 1
LoadDayCountNever(storedDayCount, lastVisitDate, today) ==
    IF Truthy(storedDayCount) THEN ParseInt(storedDayCount) ELSE 1
LoadDayCount(storedDayCount, lastVisitDate, today) ==
    LET currentDayCount == IF Truthy(storedDayCount) THEN ParseInt(storedDayCount) ELSE 1
    IN IF lastVisitDate # today /\ Truthy(lastVisitDate)
       THEN Inc(currentDayCount)
       ELSE currentDayCount

\* emotions.ts 109-128 and the finally of 132-134: the fields set from the
\* values multiGet returned.  JSON.parse of the stored toggle may throw, which
\* skips only that last assignment.
LoadFields(m, snap, currentDayCount) ==
    [m EXCEPT
       !.dayCount = currentDayCount,
       !.chatHistory =
           IF snap.chatHistory = ABSENT THEN @
           ELSE IF ParseThrows(snap.chatHistory) THEN << >>
           ELSE JSONparse(snap.chatHistory),
       !.missionHistory =
           IF snap.missionHistory = ABSENT THEN @
           ELSE IF ParseThrows(snap.missionHistory) THEN << >>
           ELSE JSONparse(snap.missionHistory),
       !.haruEmotion =
           IF snap.haruEmotion \in HARU_EMOTIONS THEN snap.haruEmotion ELSE DEFAULT_EMOTION,
       !.chatCount = IF Truthy(snap.chatCount) THEN ParseInt(snap.chatCount) ELSE 0,
       !.useAiResponse =
           CASE snap.useAiResponse = NULL -> TRUE
             [] snap.useAiResponse = "true" -> TRUE
             [] snap.useAiResponse = "false" -> FALSE
             [] OTHER -> @,
       !.isInitialized = TRUE]

\* useEffect at mount: loadState starts and issues multiGet.
StartLoad(failed) ==
    [pc |-> "multiGet", failed |-> failed, snap |-> store, today |-> "",
     dayIdx |-> 0, cur |-> 0, inc |-> FALSE, later |-> FALSE]

LoadEv(l, ok) ==
    [op |-> "load", ok |-> ok, pre |-> l.snap, today |-> l.today,
     dayIdx |-> l.dayIdx, later |-> l.later]

\* emotions.ts 96-108: multiGet has answered.
LoadAfterMultiGet ==
    /\ load.pc = "multiGet"
    /\ loadDays' = [loadDays EXCEPT !.ran = @ \cup {day}]
    /\ LET l == [load EXCEPT !.today = ISODate(day), !.dayIdx = day,
                             !.later = day \in loadDays.ran]
           cur == LoadDayCount(load.snap.dayCount, load.snap.lastVisitDate, ISODate(day))
       IN IF load.failed
          THEN /\ mem' = [mem EXCEPT !.isInitialized = TRUE]
               /\ load' = [l EXCEPT !.pc = "done"]
               /\ ev' = LoadEv(l, FALSE)
               /\ UNCHANGED << store, faults >>
          ELSE IF load.snap.lastVisitDate # ISODate(day)
          THEN \E f \in FailChoices :
               /\ store' = setItem(store, "lastVisitDate", ISODate(day), f)
               /\ faults' = faults + Count(f)
               /\ load' = [l EXCEPT !.pc = "w_last", !.failed = f, !.cur = cur,
                                    !.inc = Truthy(load.snap.lastVisitDate)]
               /\ ev' = NoEv
               /\ mem' = mem
          ELSE /\ mem' = LoadFields(mem, load.snap, cur)
               /\ load' = [l EXCEPT !.pc = "done", !.cur = cur]
               /\ ev' = LoadEv(l, TRUE)
               /\ UNCHANGED << store, faults >>
    /\ UNCHANGED << defaultKey, room, day, now, turns, reset, keyTask, dialog, gw,
                    ops, restarts >>

\* emotions.ts 106-107: the last-visit date is written, then the day count.
LoadAfterLastVisit ==
    /\ load.pc = "w_last"
    /\ IF load.failed
       THEN /\ mem' = [mem EXCEPT !.isInitialized = TRUE]
            /\ load' = [load EXCEPT !.pc = "done"]
            /\ ev' = LoadEv(load, FALSE)
            /\ UNCHANGED << store, faults, loadDays >>
       ELSE \E f \in FailChoices :
            /\ store' = setItem(store, "dayCount", NumToString(load.cur), f)
            /\ faults' = faults + Count(f)
            /\ load' = [load EXCEPT !.pc = "w_day", !.failed = f]
            /\ loadDays' = IF load.inc /\ ~f
                           THEN [loadDays EXCEPT !.inc = @ \cup {load.dayIdx}]
                           ELSE loadDays
            /\ ev' = IF load.inc /\ ~f
                     THEN [op |-> "loadInc", again |-> load.dayIdx \in loadDays.inc]
                     ELSE NoEv
            /\ mem' = mem
    /\ UNCHANGED << defaultKey, room, day, now, turns, reset, keyTask, dialog, gw,
                    ops, restarts >>

\* emotions.ts 109-134: the rest of loadState.
LoadAfterDayCount ==
    /\ load.pc = "w_day"
    /\ mem' = IF load.failed
              THEN [mem EXCEPT !.isInitialized = TRUE]
              ELSE LoadFields(mem, load.snap, load.cur)
    /\ load' = [load EXCEPT !.pc = "done"]
    /\ ev' = LoadEv(load, ~load.failed)
    /\ UNCHANGED << store, defaultKey, room, day, now, turns, reset, keyTask, dialog,
                    gw, ops, restarts, faults, loadDays >>

\* The process is killed and started again: React state starts from its
\* defaults, every call in flight is gone, the store is what it was.
Restart ==
    /\ restarts < MaxRestarts
    /\ restarts' = restarts + 1
    /\ mem' = DefaultMem
    /\ turns' = {}
    /\ reset' = Idle
    /\ keyTask' = Idle
    /\ dialog' = "none"
    /\ \E f \in FailChoices :
         /\ load' = StartLoad(f)
         /\ faults' = faults + Count(f)
    /\ room' = RoomIdle
    /\ ev' = [op |-> "restart"]
    /\ UNCHANGED << store, defaultKey, day, now, gw, ops, loadDays >>

\* Midnight (UTC) passes.
DayTick ==
    /\ day < MaxDay
    /\ day' = day + 1
    /\ ev' = NoEv
    /\ UNCHANGED << mem, store, defaultKey, room, now, load, turns, reset, keyTask,
                    dialog, gw, ops, restarts, faults, loadDays >>

\* A millisecond passes.
ClockTick ==
    /\ now < MaxNow
    /\ now' = now + 1
    /\ ev' = NoEv
    /\ UNCHANGED << mem, store, defaultKey, room, day, load, turns, reset, keyTask,
                    dialog, gw, ops, restarts, faults, loadDays >>

\* ------------------------------------------------------------------ turns
\* The outcomes of the remote service the manager is run against.
GoodPayload == [parse |-> "object", raw |-> "{json}",
                emotion |-> "relaxed_smile", response |-> REPLY_TEXT]
EchoPayload == [parse |-> "object", raw |-> "{json}",
                emotion |-> "angry", response |-> ECHO_TEXT]
TurnFetches == { [kind |-> "abort", status |-> 0],
                 [kind |-> "response", status |-> 200],
                 [kind |-> "response", status |-> 503] }
TurnBodies == { [kind |-> "missing", payload |-> NoPayload],
                [kind |-> "text", payload |-> GoodPayload],
                [kind |-> "text", payload |-> EchoPayload] }
TurnRnds == {1}

NoMsg == [id |-> 0, text |-> "", sender |-> "none", state |-> NULL]
UserMessage(text) == [id |-> now, text |-> text, sender |-> "user", state |-> NULL]
\* emotions.ts 174
BotMessageNeutral(reply) == [id |-> now, text |-> reply.text, sender |-> "bot", state |-> "neutral"]
BotMessage(reply) == [id |-> now, text |-> reply.text, sender |-> "bot", state |-> reply.state]

\* emotions.ts 163: the reply when the AI feature is off.
LocalReplyFromPool == Resolved(getRandomFallback(1), "error", "Network request failed.")
LocalReply == Resolved([text |-> LOCAL_TEXT, state |-> "half_turned"], "idle", "AI is disabled")
\* emotions.ts 166-169: getGeminiResponse threw.
ClientErrorReply == Resolved([text |-> CLIENT_ERROR_TEXT, state |-> "neutral"],
                             "error", "Client-side error")

\* The steps of a turn in which getGeminiResponse is running.
GatewaySteps == {"g_key", "g_fetch", "g_body"}

\* History: the turns that were awaiting their reply when a reset was called.
ResetDuring(ts) == { [t EXCEPT !.cut = @ \/ t.pc \in GatewaySteps] : t \in ts }

\* Two storage requests issued together: which of them fail.
FailPairs == { p \in FailChoices \X FailChoices : faults + Count(p[1]) + Count(p[2]) <= MaxFaults }

\* emotions.ts 190: the history written once the bot has answered.
FinalHistoryBotOnly(newHistory, botMessage) == << botMessage >>
FinalHistory(newHistory, botMessage) == Append(newHistory, botMessage)

\* emotions.ts 177-185: sendUserMessage up to its first await.  chatHistory
\* and chatCount in newHistory and in the count written are the values of the
\* render the caller's closure comes from.
SendUserMessage(message, via) ==
    /\ ops < MaxOps
    /\ ops' = ops + 1
    /\ mem' = [mem EXCEPT !.chatHistory = Append(@, message), !.chatCount = @ + 1]
    /\ LET newHistory == Append(mem.chatHistory, message)
       IN \E p \in FailPairs :
            /\ store' = setItem(setItem(store, "chatHistory", JSONstringify(newHistory), p[1]),
                                "chatCount", NumToString(mem.chatCount + 1), p[2])
            /\ faults' = faults + Count(p[1]) + Count(p[2])
            /\ turns' = turns \cup
                 { [id |-> ops, pc |-> "w1", msg |-> message, newHistory |-> newHistory,
                    base |-> mem.chatHistory, useAi |-> mem.useAiResponse,
                    init |-> mem.isInitialized,
                    failed |-> p[1] \/ p[2], faulty |-> p[1] \/ p[2],
                    stored |-> NULL, status |-> 0, bot |-> NoMsg, cut |-> FALSE] }
    /\ ev' = [op |-> "sendCall", via |-> via, init |-> mem.isInitialized,
              busy |-> turns # {}, thinking |-> mem.isAiThinking,
              preMem |-> mem, preStore |-> store]
    /\ UNCHANGED << defaultKey, room, day, now, load, reset, keyTask, dialog, gw,
                    restarts, loadDays >>

\* HomeScreen.tsx 92-102
HandleSend ==
    /\ dialog = "none"
    /\ ~(mem.isAiThinking \/ ~mem.isInitialized)
    /\ SendUserMessage(UserMessage("typed text"), "handleSend")

\* EmotionChatScreen.handleNext (src/unnamed/part_005 325-339)
HandleNext ==
    /\ dialog = "none"
    /\ SendUserMessage(UserMessage("chosen emotion"), "handleNext")

\* emotions.ts 170-174 and 189-191: the end of getBotResponse (finally and
\* return) and of sendUserMessage up to its last await.
TurnFinish(t, r) ==
    \E p \in FailPairs :
      LET botMessage == BotMessage(r.reply)
          finalHistory == FinalHistory(t.newHistory, botMessage)
      IN /\ mem' = [setGeminiStatus(mem, r.status, r.error) EXCEPT
                      !.isAiThinking = FALSE,
                      !.haruEmotion = r.reply.state,
                      !.chatHistory = Append(@, botMessage)]
         /\ store' = setItem(setItem(store, "haruEmotion", r.reply.state, p[1]),
                             "chatHistory", JSONstringify(finalHistory), p[2])
         /\ faults' = faults + Count(p[1]) + Count(p[2])
         /\ turns' = (turns \ {t}) \cup
                       { [t EXCEPT !.pc = "w2", !.failed = p[2],
                                   !.faulty = @ \/ p[1] \/ p[2], !.bot = botMessage] }
         /\ ev' = [op |-> "botReply", id |-> t.id, useAi |-> t.useAi]

\* emotions.ts 182-187 and 156-165: the two writes have settled; on success
\* getBotResponse starts.
TurnAfterWrites ==
    \E t \in turns :
      /\ t.pc = "w1"
      /\ IF t.failed
         THEN /\ turns' = turns \ {t}
              /\ ev' = [op |-> "send", ok |-> FALSE, rejected |-> TRUE, t |-> t]
              /\ UNCHANGED << mem, store, faults >>
         ELSE IF t.useAi
         THEN \E f \in FailChoices :
              /\ mem' = [mem EXCEPT !.isAiThinking = TRUE]
              /\ turns' = (turns \ {t}) \cup
                            { [t EXCEPT !.pc = "g_key", !.failed = f,
                                        !.stored = store.apiKey] }
              /\ faults' = faults + Count(f)
              /\ ev' = NoEv
              /\ store' = store
         ELSE TurnFinish(t, LocalReply)
      /\ UNCHANGED << defaultKey, room, day, now, load, reset, keyTask, dialog, gw,
                      ops, restarts, loadDays >>

\* gemini.ts 76-96 inside a turn
TurnAfterKey ==
    \E t \in turns :
      /\ t.pc = "g_key"
      /\ IF t.failed
         THEN TurnFinish(t, ClientErrorReply)
         ELSE LET r == GwKeyStep(t.stored, defaultKey)
              IN IF r.done
                 THEN TurnFinish(t, r)
                 ELSE /\ turns' = (turns \ {t}) \cup { [t EXCEPT !.pc = "g_fetch"] }
                      /\ ev' = NoEv
                      /\ UNCHANGED << mem, store, faults >>
      /\ UNCHANGED << defaultKey, room, day, now, load, reset, keyTask, dialog, gw,
                      ops, restarts, loadDays >>

\* gemini.ts 104-118 inside a turn
TurnAfterFetch ==
    \E t \in turns :
      /\ t.pc = "g_fetch"
      /\ \E f \in TurnFetches, rnd \in TurnRnds :
           LET r == GwFetchStep(f, rnd)
           IN IF r.done
              THEN TurnFinish(t, r)
              ELSE /\ turns' = (turns \ {t}) \cup
                                 { [t EXCEPT !.pc = "g_body", !.status = f.status] }
                   /\ ev' = NoEv
                   /\ UNCHANGED << mem, store, faults >>
      /\ UNCHANGED << defaultKey, room, day, now, load, reset, keyTask, dialog, gw,
                      ops, restarts, loadDays >>

\* gemini.ts 120-177 inside a turn
TurnAfterBody ==
    \E t \in turns :
      /\ t.pc = "g_body"
      /\ \E b \in TurnBodies, rnd \in TurnRnds :
           TurnFinish(t, GwBodyStep(t.status, b, rnd))
      /\ UNCHANGED << defaultKey, room, day, now, load, reset, keyTask, dialog, gw,
                      ops, restarts, loadDays >>

\* emotions.ts 191-192: the last write has settled.
TurnAfterFinalWrite ==
    \E t \in turns :
      /\ t.pc = "w2"
      /\ turns' = turns \ {t}
      /\ ev' = [op |-> "send", ok |-> ~t.faulty, rejected |-> t.failed, t |-> t]
      /\ UNCHANGED << mem, store, defaultKey, room, day, now, load, reset, keyTask,
                      dialog, gw, ops, restarts, faults, loadDays >>

\* ------------------------------------------------------------------ missions, settings
\* emotions.ts 195
NewCompletion(missionText, photoUri) ==
    [id |-> now, missionName |-> missionText, date |-> ISODate(day), photoUri |-> photoUri]

\* emotions.ts 194-200, called by MarkerMissionScreen.handleCompleteMission
\* (src/unnamed/part_002 346-351).  The write's failure is caught and logged.
CompleteMission ==
    /\ dialog = "none"
    /\ ops < MaxOps
    /\ ops' = ops + 1
    /\ LET newHistory == << NewCompletion("tidy the desk", NULL) >> \o mem.missionHistory
       IN /\ mem' = [mem EXCEPT !.missionHistory = newHistory]
          /\ \E f \in FailChoices :
               /\ store' = setItem(store, "missionHistory", JSONstringify(newHistory), f)
               /\ faults' = faults + Count(f)
               /\ ev' = [op |-> "completeMission", ok |-> ~f,
                         preMem |-> mem, preStore |-> store]
    /\ UNCHANGED << defaultKey, room, day, now, load, turns, reset, keyTask, dialog,
                    gw, restarts, loadDays >>

\* AdminScreen.tsx 59
isBusy == mem.isAiThinking \/ ~mem.isInitialized

AdminEmotions == {"very_shy", "neutral"}

\* emotions.ts 144-148, called by AdminScreen.handleSetEmotion
SetHaruEmotion ==
    /\ dialog = "none"
    /\ ~isBusy
    /\ ops < MaxOps
    /\ ops' = ops + 1
    /\ \E emotion \in AdminEmotions, f \in FailChoices :
         /\ mem' = [mem EXCEPT !.haruEmotion = emotion]
         /\ store' = setItem(store, "haruEmotion", emotion, f)
         /\ faults' = faults + Count(f)
         /\ ev' = [op |-> "setHaruEmotion", ok |-> ~f]
    /\ UNCHANGED << defaultKey, room, day, now, load, turns, reset, keyTask, dialog,
                    gw, restarts, loadDays >>

\* AdminScreen.tsx 61-116: a button that is not disabled opens its Alert.
OpenDialog(kind) ==
    /\ dialog = "none"
    /\ ~isBusy
    /\ ops < MaxOps
    /\ dialog' = kind
    /\ ev' = NoEv
    /\ UNCHANGED << mem, store, defaultKey, room, day, now, load, turns, reset,
                    keyTask, gw, ops, restarts, faults, loadDays >>

CancelDialog ==
    /\ dialog # "none"
    /\ dialog' = "none"
    /\ ev' = NoEv
    /\ UNCHANGED << mem, store, defaultKey, room, day, now, load, turns, reset,
                    keyTask, gw, ops, restarts, faults, loadDays >>

\* emotions.ts 150-154, called from the Alert of handleToggleAiResponse with
\* the value the switch was moved to.
SetUseAiResponse ==
    /\ dialog = "ai"
    /\ dialog' = "none"
    /\ ops' = ops + 1
    /\ \E f \in FailChoices :
         /\ mem' = [mem EXCEPT !.useAiResponse = ~mem.useAiResponse]
         /\ store' = setItem(store, "useAiResponse",
                             IF ~mem.useAiResponse THEN "true" ELSE "false", f)
         /\ faults' = faults + Count(f)
         /\ ev' = [op |-> "setUseAiResponse", ok |-> ~f]
    /\ UNCHANGED << defaultKey, room, day, now, load, turns, reset, keyTask, gw,
                    restarts, loadDays >>

\* ------------------------------------------------------------------ resets
ResetEv(r) ==
    [op |-> r.op, ok |-> ~r.faulty, preMem |-> r.preMem, preStore |-> r.preStore,
     today |-> r.today]

\* emotions.ts 203-204: what softReset clears in memory.
SoftResetMemAll(m) ==
    [m EXCEPT !.chatHistory = << >>, !.chatCount = 0, !.missionHistory = << >>]
SoftResetMemLogOnly(m) == [m EXCEPT !.chatHistory = << >>]
SoftResetMem(m) == [m EXCEPT !.chatHistory = << >>, !.chatCount = 0]

\* emotions.ts 202-206: softReset up to its first await.
SoftReset ==
    /\ dialog = "soft"
    /\ reset.pc = "none"
    /\ dialog' = "none"
    /\ ops' = ops + 1
    /\ mem' = SoftResetMem(mem)
    /\ \E f \in FailChoices :
         /\ store' = removeItem(store, "chatHistory", f)
         /\ faults' = faults + Count(f)
         /\ reset' = [op |-> "softReset", pc |-> "s_rm", failed |-> f, faulty |-> f,
                      preMem |-> mem, preStore |-> store, today |-> ""]
    /\ turns' = ResetDuring(turns)
    /\ ev' = NoEv
    /\ UNCHANGED << defaultKey, room, day, now, load, keyTask, gw, restarts, loadDays >>

\* emotions.ts 207-208
SoftAfterRemove ==
    /\ reset.pc = "s_rm"
    /\ IF reset.failed
       THEN /\ reset' = Idle
            /\ ev' = ResetEv(reset)
            /\ UNCHANGED << store, faults >>
       ELSE \E f \in FailChoices :
            /\ store' = setItem(store, "chatCount", "0", f)
            /\ faults' = faults + Count(f)
            /\ reset' = [reset EXCEPT !.pc = "s_cnt", !.failed = f, !.faulty = f]
            /\ ev' = NoEv
    /\ UNCHANGED << mem, defaultKey, room, day, now, load, turns, keyTask, dialog, gw,
                    ops, restarts, loadDays >>

SoftAfterCount ==
    /\ reset.pc = "s_cnt"
    /\ reset' = Idle
    /\ ev' = ResetEv(reset)
    /\ UNCHANGED << mem, store, defaultKey, room, day, now, load, turns, keyTask,
                    dialog, gw, ops, restarts, faults, loadDays >>

\* emotions.ts 211-213: hardReset up to its first await.
HardReset ==
    /\ dialog = "hard"
    /\ reset.pc = "none"
    /\ dialog' = "none"
    /\ ops' = ops + 1
    /\ \E f \in FailChoices :
         /\ store' = multiRemove(store, STORAGE_KEYS, f)
         /\ faults' = faults + Count(f)
         /\ reset' = [op |-> "hardReset", pc |-> "h_rm", failed |-> f, faulty |-> f,
                      preMem |-> mem, preStore |-> store, today |-> ""]
    /\ turns' = ResetDuring(turns)
    /\ ev' = NoEv
    /\ UNCHANGED << mem, defaultKey, room, day, now, load, keyTask, gw, restarts,
                    loadDays >>

\* emotions.ts 214-221: what hardReset sets in memory.
HardResetMem(m) ==
    [m EXCEPT !.dayCount = 1, !.chatHistory = << >>, !.missionHistory = << >>,
              !.haruEmotion = DEFAULT_EMOTION, !.chatCount = 0,
              !.useAiResponse = TRUE, !.geminiStatus = "idle",
              !.lastGeminiError = ""]

\* emotions.ts 223-225: the keys hardReset writes again, first the day count.
HardResetStampNone(s, today, failed) == s
HardResetDayCount(s, failed) == setItem(s, "dayCount", "1", failed)
HardResetStamp(s, today, failed) == setItem(s, "lastVisitDate", today, failed)

HardAfterRemove ==
    /\ reset.pc = "h_rm"
    /\ IF reset.failed
       THEN /\ reset' = Idle
            /\ ev' = ResetEv(reset)
            /\ UNCHANGED << mem, store, faults >>
       ELSE \E f \in FailChoices :
            /\ mem' = HardResetMem(mem)
            /\ store' = HardResetDayCount(store, f)
            /\ faults' = faults + Count(f)
            /\ reset' = [reset EXCEPT !.pc = "h_day", !.failed = f, !.faulty = f,
                                      !.today = ISODate(day)]
            /\ ev' = NoEv
    /\ UNCHANGED << defaultKey, room, day, now, load, turns, keyTask, dialog, gw,
                    ops, restarts, loadDays >>

HardAfterDayCount ==
    /\ reset.pc = "h_day"
    /\ IF reset.failed
       THEN /\ reset' = Idle
            /\ ev' = ResetEv(reset)
            /\ UNCHANGED << store, faults >>
       ELSE \E f \in FailChoices :
            /\ store' = HardResetStamp(store, reset.today, f)
            /\ faults' = faults + Count(f)
            /\ reset' = [reset EXCEPT !.pc = "h_last", !.failed = f, !.faulty = f]
            /\ ev' = NoEv
    /\ UNCHANGED << mem, defaultKey, room, day, now, load, turns, keyTask, dialog, gw,
                    ops, restarts, loadDays >>

HardAfterLastVisit ==
    /\ reset.pc = "h_last"
    /\ reset' = Idle
    /\ ev' = ResetEv(reset)
    /\ loadDays' = IF reset.faulty THEN loadDays
                   ELSE [loadDays EXCEPT !.hard = @ \cup {reset.today}]
    /\ UNCHANGED << mem, store, defaultKey, room, day, now, load, turns, keyTask,
                    dialog, gw, ops, restarts, faults >>

\* ------------------------------------------------------------------ updateApiKey
NewKeys == {"KEY_A", "KEY_B"}

KeyEv(k, result) ==
    [op |-> "updateApiKey", result |-> result, newKey |-> k.newKey,
     preKey |-> k.preKey, rolledBack |-> k.pc = "k_rb", reply |-> k.reply]

\* AdminScreen.tsx 129-136 and emotions.ts 231-232: handleSaveApiKey calls
\* updateApiKey with the trimmed, non-empty key; the old key is read first.
HandleSaveApiKey ==
    /\ dialog = "none"
    /\ ~isBusy
    /\ keyTask.pc = "none"
    /\ ops < MaxOps
    /\ ops' = ops + 1
    /\ \E newKey \in NewKeys, f \in FailChoices :
         /\ keyTask' = [pc |-> "k_old", failed |-> f, newKey |-> newKey,
                        oldKey |-> store.apiKey, preKey |-> store.apiKey,
                        stored |-> NULL, status |-> 0, reply |-> ""]
         /\ faults' = faults + Count(f)
    /\ ev' = NoEv
    /\ UNCHANGED << mem, store, defaultKey, room, day, now, load, turns, reset,
                    dialog, gw, restarts, loadDays >>

\* emotions.ts 232-234
KeyAfterOld ==
    /\ keyTask.pc = "k_old"
    /\ IF keyTask.failed
       THEN /\ keyTask' = Idle
            /\ ev' = KeyEv(keyTask, "rejected")
            /\ UNCHANGED << store, faults >>
       ELSE \E f \in FailChoices :
            /\ store' = setItem(store, "apiKey", keyTask.newKey, f)
            /\ faults' = faults + Count(f)
            /\ keyTask' = [keyTask EXCEPT !.pc = "k_set", !.failed = f]
            /\ ev' = NoEv
    /\ UNCHANGED << mem, defaultKey, room, day, now, load, turns, reset, dialog, gw,
                    ops, restarts, loadDays >>

\* emotions.ts 240-241: the catch block restores the old key.
RollbackRemoveAlways(s, oldKey, failed) == removeItem(s, "apiKey", failed)
Rollback(s, oldKey, failed) ==
    IF Truthy(oldKey)
    THEN setItem(s, "apiKey", oldKey, failed)
    ELSE removeItem(s, "apiKey", failed)

KeyRollback(k) ==
    \E f \in FailChoices :
      /\ store' = Rollback(store, k.oldKey, f)
      /\ faults' = faults + Count(f)
      /\ keyTask' = [k EXCEPT !.pc = "k_rb", !.failed = f]
      /\ ev' = NoEv

\* emotions.ts 236-237: the probe's reply decides.
KeyProbed(k, r) ==
    /\ mem' = setGeminiStatus(mem, r.status, r.error)
    /\ IF Includes(r.reply.text, SENTINEL)
       THEN KeyRollback([k EXCEPT !.reply = r.reply.text])
       ELSE /\ keyTask' = Idle
            /\ ev' = KeyEv([k EXCEPT !.reply = r.reply.text], "true")
            /\ UNCHANGED << store, faults >>

\* emotions.ts 234-235 and gemini.ts 76: setItem has settled; the probe
\* starts by reading the key.
KeyAfterSet ==
    /\ keyTask.pc = "k_set"
    /\ IF keyTask.failed
       THEN KeyRollback(keyTask)
       ELSE \E f \in FailChoices :
            /\ keyTask' = [keyTask EXCEPT !.pc = "g_key", !.failed = f,
                                          !.stored = store.apiKey]
            /\ faults' = faults + Count(f)
            /\ ev' = NoEv
            /\ store' = store
    /\ UNCHANGED << mem, defaultKey, room, day, now, load, turns, reset, dialog, gw,
                    ops, restarts, loadDays >>

KeyAfterKey ==
    /\ keyTask.pc = "g_key"
    /\ IF keyTask.failed
       THEN KeyRollback(keyTask) /\ mem' = mem
       ELSE LET r == GwKeyStep(keyTask.stored, defaultKey)
            IN IF r.done
               THEN KeyProbed(keyTask, r)
               ELSE /\ keyTask' = [keyTask EXCEPT !.pc = "g_fetch"]
                    /\ ev' = NoEv
                    /\ UNCHANGED << mem, store, faults >>
    /\ UNCHANGED << defaultKey, room, day, now, load, turns, reset, dialog, gw,
                    ops, restarts, loadDays >>

KeyAfterFetch ==
    /\ keyTask.pc = "g_fetch"
    /\ \E f \in TurnFetches, rnd \in TurnRnds :
         LET r == GwFetchStep(f, rnd)
         IN IF r.done
            THEN KeyProbed(keyTask, r)
            ELSE /\ keyTask' = [keyTask EXCEPT !.pc = "g_body", !.status = f.status]
                 /\ ev' = NoEv
                 /\ UNCHANGED << mem, store, faults >>
    /\ UNCHANGED << defaultKey, room, day, now, load, turns, reset, dialog, gw,
                    ops, restarts, loadDays >>

KeyAfterBody ==
    /\ keyTask.pc = "g_body"
    /\ \E b \in TurnBodies, rnd \in TurnRnds :
         KeyProbed(keyTask, GwBodyStep(keyTask.status, b, rnd))
    /\ UNCHANGED << defaultKey, room, day, now, load, turns, reset, dialog, gw,
                    ops, restarts, loadDays >>

\* emotions.ts 240-242: the rollback write has settled.
KeyAfterRollback ==
    /\ keyTask.pc = "k_rb"
    /\ keyTask' = Idle
    /\ ev' = KeyEv(keyTask, IF keyTask.failed THEN "rejected" ELSE "false")
    /\ UNCHANGED << mem, store, defaultKey, room, day, now, load, turns, reset,
                    dialog, gw, ops, restarts, faults, loadDays >>

\* ------------------------------------------------------------------ mission screen
\* RoomMissionScreen.tsx 418-421: a mission of the list is chosen.
HandleSelectMission ==
    /\ room.step = "selection"
    /\ ~room.isSubmitting
    /\ ops < MaxOps
    /\ room' = [room EXCEPT !.currentMission = "tidy the desk", !.step = "photo",
                            !.calls = 0, !.base = Len(mem.missionHistory)]
    /\ ev' = NoEv
    /\ UNCHANGED << mem, store, defaultKey, day, now, load, turns, reset,
                    keyTask, dialog, gw, ops, restarts, faults, loadDays >>

\* RoomMissionScreen.tsx 423-470: pickImage / takePhoto end with a photo.
\* The picker covers the screen, so this is one step.
PickImage ==
    /\ room.step = "photo"
    /\ room.imageUri = NULL
    /\ ~room.isSubmitting
    /\ room' = [room EXCEPT !.imageUri = "photo.jpg"]
    /\ ev' = NoEv
    /\ UNCHANGED << mem, store, defaultKey, day, now, load, turns, reset,
                    keyTask, dialog, gw, ops, restarts, faults, loadDays >>

\* RoomMissionScreen.tsx 473: the guard of handleComplete.
RoomCanCompleteNoGuard(r) == r.currentMission # NULL
RoomCanComplete(r) == r.currentMission # NULL /\ ~r.isSubmitting

\* RoomMissionScreen.tsx 472-477 with emotions.ts 194-198: a press on the
\* complete button of the photo step reaches handleComplete (a press already
\* on its way when the button was replaced by the spinner included); past
\* the guard, isSubmitting is set and completeMission runs to its await.
HandleComplete ==
    /\ room.step = "photo"
    /\ room.imageUri # NULL
    /\ \/ /\ RoomCanComplete(room)
          /\ ops < MaxOps
          /\ ops' = ops + 1
          /\ LET newHistory == << NewCompletion(room.currentMission, room.imageUri) >>
                                  \o mem.missionHistory
             IN /\ mem' = [mem EXCEPT !.missionHistory = newHistory]
                /\ \E f \in FailChoices :
                     /\ store' = setItem(store, "missionHistory",
                                         JSONstringify(newHistory), f)
                     /\ faults' = faults + Count(f)
                     /\ room' = [room EXCEPT !.isSubmitting = TRUE, !.pc = "await",
                                             !.failed = f, !.calls = @ + 1]
          /\ ev' = [op |-> "handleComplete", accepted |-> TRUE]
       \/ /\ ~RoomCanComplete(room)
          /\ ev' = [op |-> "handleComplete", accepted |-> FALSE]
          /\ UNCHANGED << mem, store, room, ops, faults >>
    /\ UNCHANGED << defaultKey, day, now, load, turns, reset, keyTask, dialog,
                    gw, restarts, loadDays >>

\* RoomMissionScreen.tsx 477-480: completeMission has resolved (it catches
\* the failure of its write, emotions.ts 198-199); the 2 s timer is set.
RoomAfterComplete ==
    /\ room.pc = "await"
    /\ room' = [room EXCEPT !.step = "completed", !.pc = "timer"]
    /\ ev' = NoEv
    /\ UNCHANGED << mem, store, defaultKey, day, now, load, turns, reset,
                    keyTask, dialog, gw, ops, restarts, faults, loadDays >>

\* RoomMissionScreen.tsx 480-487: the timer's callback resets the screen.
RoomTimer ==
    /\ room.pc = "timer"
    /\ room' = RoomIdle
    /\ ev' = [op |-> "roomReset", calls |-> room.calls,
              added |-> Len(mem.missionHistory) - room.base]
    /\ UNCHANGED << mem, store, defaultKey, day, now, load, turns, reset,
                    keyTask, dialog, gw, ops, restarts, faults, loadDays >>

\* ------------------------------------------------------------------ specifications
\* The process starts on a device whose storage holds `stored`; loadState
\* has issued its multiGet.
Boot(stored) ==
    /\ mem = DefaultMem
    /\ store = stored
    /\ defaultKey \in {"", "ENV_KEY"}
    /\ day = 0
    /\ now = 0
    /\ load = [pc |-> "multiGet", failed |-> FALSE, snap |-> stored, today |-> "",
               dayIdx |-> 0, cur |-> 0, inc |-> FALSE, later |-> FALSE]
    /\ turns = {}
    /\ reset = Idle
    /\ keyTask = Idle
    /\ dialog = "none"
    /\ gw = GwIdle
    /\ room = RoomIdle
    /\ ops = 0
    /\ restarts = 0
    /\ faults = 0
    /\ loadDays = [ran |-> {}, inc |-> {}, hard |-> {}]
    /\ ev = NoEv

\* A fresh install.
Init == Boot(EmptyStore)

LoadSteps == LoadAfterMultiGet \/ LoadAfterLastVisit \/ LoadAfterDayCount
TurnSteps ==
    TurnAfterWrites \/ TurnAfterKey \/ TurnAfterFetch \/ TurnAfterBody \/ TurnAfterFinalWrite
SoftSteps == SoftReset \/ SoftAfterRemove \/ SoftAfterCount
HardSteps == HardReset \/ HardAfterRemove \/ HardAfterDayCount \/ HardAfterLastVisit
KeySteps == KeyAfterOld \/ KeyAfterSet \/ KeyAfterKey \/ KeyAfterFetch \/ KeyAfterBody
            \/ KeyAfterRollback
RoomSteps ==
    HandleSelectMission \/ PickImage \/ HandleComplete \/ RoomAfterComplete \/ RoomTimer
Dialogs == OpenDialog("soft") \/ OpenDialog("hard") \/ OpenDialog("ai") \/ CancelDialog

\* Every interleaving the event loop allows.
Next ==
    \/ LoadSteps \/ Restart \/ DayTick \/ ClockTick
    \/ HandleSend \/ HandleNext \/ TurnSteps
    \/ CompleteMission \/ SetHaruEmotion \/ SetUseAiResponse
    \/ Dialogs \/ SoftSteps \/ HardSteps
    \/ HandleSaveApiKey \/ KeySteps
    \/ RoomSteps
Spec == Init /\ [][Next]_vars

\* The chat: turns, the soft reset and the AI toggle, in every interleaving,
\* on one day of one process.
NextChat ==
    \/ LoadSteps \/ HandleSend \/ HandleNext \/ TurnSteps
    \/ OpenDialog("soft") \/ OpenDialog("ai") \/ CancelDialog
    \/ SoftSteps \/ SetUseAiResponse
SpecChat == Init /\ [][NextChat]_vars

\* No call in flight: the user starts the next operation only after the
\* previous one (and the load) has settled.
Quiet ==
    /\ load.pc = "done"
    /\ turns = {}
    /\ reset.pc = "none"
    /\ keyTask.pc = "none"

\* What the store holds after a first day of use: one turn, one mission, the
\* emotion and the AI toggle set by the administrator, a credential saved.
UsedStore ==
    [dayCount |-> "1",
     lastVisitDate |-> ISODate(0),
     chatHistory |-> JSONstringify(
        << [id |-> 0, text |-> "typed text", sender |-> "user", state |-> NULL],
           [id |-> 0, text |-> LOCAL_TEXT, sender |-> "bot", state |-> "half_turned"] >>),
     missionHistory |-> JSONstringify(
        << [id |-> 0, missionName |-> "tidy the desk", date |-> ISODate(0),
            photoUri |-> NULL] >>),
     haruEmotion |-> "very_shy",
     chatCount |-> "1",
     apiKey |-> "KEY_A",
     useAiResponse |-> "false"]

\* The day count: load cycles over restarts and days, with the hard reset,
\* on a fresh install or on a device used before.
InitDays == \E stored \in {EmptyStore, UsedStore} : Boot(stored)
NextDays ==
    \/ LoadSteps \/ Restart \/ DayTick
    \/ OpenDialog("hard") \/ CancelDialog \/ HardSteps
SpecDays == InitDays /\ [][NextDays]_vars

\* Load cycles alone, over restarts and days.
NextLoads == LoadSteps \/ Restart \/ DayTick
SpecLoads == Init /\ [][NextLoads]_vars

\* Missions against the millisecond clock.
NextMission == LoadSteps \/ Restart \/ ClockTick \/ CompleteMission
SpecMission == Init /\ [][NextMission]_vars

\* One operation at a time, each run to its end before the next starts.
NextSeq ==
    \/ LoadSteps \/ TurnSteps \/ KeySteps
    \/ SoftAfterRemove \/ SoftAfterCount
    \/ HardAfterRemove \/ HardAfterDayCount \/ HardAfterLastVisit
    \/ (Quiet /\ HandleSend) \/ (Quiet /\ HandleNext)
    \/ (Quiet /\ CompleteMission) \/ (Quiet /\ SetHaruEmotion)
    \/ (Quiet /\ Dialogs) \/ (Quiet /\ SetUseAiResponse)
    \/ (Quiet /\ SoftReset) \/ (Quiet /\ HardReset)
    \/ (Quiet /\ HandleSaveApiKey)
SpecSeq == Init /\ [][NextSeq]_vars

\* The mission screen: completion flows against the load and the clock.
\* AsyncStorage answers every request and a timer that was set fires.
NextRoom == LoadSteps \/ ClockTick \/ RoomSteps
SpecRoom ==
    Init /\ [][NextRoom]_vars /\ WF_vars(RoomAfterComplete) /\ WF_vars(RoomTimer)

\* getGeminiResponse on its own, for every stored key, build-time key and
\* outcome of the remote service.
InitGateway ==
    \E storedKey \in {NULL, "KEY_A"} : Boot([EmptyStore EXCEPT !.apiKey = storedKey])
NextGateway == GwCall \/ GwAfterKey \/ GwTick \/ GwAfterFetch \/ GwAfterBody
SpecGateway == InitGateway /\ [][NextGateway]_vars

\* What a device's storage may hold when the process starts: each key
\* missing, valid, or holding a value the load cannot use.  A day count
\* without a last-visit date is what the earlier provider (emotions.ts
\* 301-343: harusali_dayCount and no date) leaves behind.
StoredContents ==
    { [k \in STORAGE_KEYS |->
         CASE k = "dayCount" -> dc
           [] k = "lastVisitDate" -> lv
           [] k = "chatHistory" -> ch
           [] k = "missionHistory" -> mh
           [] k = "haruEmotion" -> he
           [] k = "chatCount" -> cc
           [] k = "useAiResponse" -> ua
           [] OTHER -> NULL] :
        dc \in {NULL, "2", "abc"},
        lv \in {NULL, ISODate(0)},
        ch \in {ABSENT, NOT_JSON,
                JSONstringify(<< [id |-> 0, text |-> "typed text", sender |-> "user",
                                  state |-> NULL] >>)},
        mh \in {ABSENT, NOT_JSON},
        he \in {NULL, "very_shy", "angry"},
        cc \in {NULL, "1", "abc"},
        ua \in {NULL, "false", "maybe"} }

\* The load cycle against every such storage content, on the day of the
\* last visit or a later one.
InitStored == \E stored \in StoredContents : Boot(stored)
NextStored == LoadSteps \/ DayTick
SpecStored == InitStored /\ [][NextStored]_vars

\* ------------------------------------------------------------------ properties
\* C1 (single flight): a sendUserMessage call made while an earlier turn has
\* not resolved appends no message, leaves chatCount and the store as they
\* were, and so at most one turn is in flight at any time.  Stated for the
\* calls made once the initial load has finished (C10 is about the others).
C1_SingleFlight ==
    (\A t \in turns : t.init) =>
       /\ (ev.op = "sendCall" /\ ev.busy) =>
             /\ mem.chatHistory = ev.preMem.chatHistory
             /\ mem.chatCount = ev.preMem.chatCount
             /\ store = ev.preStore
       /\ Cardinality(turns) <= 1

\* C2 (append-only log): when turns run one after the other, a turn that
\* started from the log L keeps L as the prefix of the log at each of its
\* steps, and once it has resolved with its writes stored, the log in memory
\* and the log under the chat-history key are L, then the user's message,
\* then the bot's reply.
C2_AppendOnly ==
    /\ \A t \in turns :
          /\ t.newHistory = Append(t.base, t.msg)
          /\ t.pc # "w2" => mem.chatHistory = Append(t.base, t.msg)
          /\ t.pc = "w2" => mem.chatHistory = t.base \o << t.msg, t.bot >>
    /\ (ev.op = "send" /\ ev.ok) =>
          /\ mem.chatHistory = ev.t.base \o << ev.t.msg, ev.t.bot >>
          /\ store.chatHistory = JSONstringify(ev.t.base \o << ev.t.msg, ev.t.bot >>)
          /\ ev.t.msg.sender = "user"
          /\ ev.t.bot.sender = "bot"

\* C2 witness: the second of two turns has resolved, so the log is the two
\* messages of the first turn followed by the two of the second.
C2_SecondTurnDone ==
    /\ ev.op = "send" /\ ev.ok
    /\ Len(ev.t.base) = 2
    /\ Len(mem.chatHistory) = 4
    /\ store.chatHistory = JSONstringify(mem.chatHistory)
    /\ << mem.chatHistory[1].sender, mem.chatHistory[2].sender,
          mem.chatHistory[3].sender, mem.chatHistory[4].sender >>
         = << "user", "bot", "user", "bot" >>

StoredCount(s) == IF Truthy(s) THEN ParseInt(s) ELSE 1

\* C4 (day-count advancement): a load cycle that finds a day count n and a
\* last-visit date other than today, and whose writes are stored, sets
\* dayCount to n + 1 whatever the number of days in between, and leaves
\* today as the persisted last-visit date and n + 1 as the persisted count.
C4_DayCountAdvance ==
    (/\ ev.op = "load" /\ ev.ok
     /\ Truthy(ev.pre.lastVisitDate) /\ ev.pre.lastVisitDate # ev.today
     /\ Truthy(ev.pre.dayCount)) =>
       /\ mem.dayCount = ParseInt(ev.pre.dayCount) + 1
       /\ store.lastVisitDate = ev.today
       /\ store.dayCount = NumToString(ParseInt(ev.pre.dayCount) + 1)

\* C4 witness: last visit on 2024-01-01, load on 2024-01-03: the count goes
\* from 1 to 2.
C4_TwoDaysSkipped ==
    /\ ev.op = "load" /\ ev.ok
    /\ ev.pre.lastVisitDate = ISODate(0)
    /\ ev.today = ISODate(2)
    /\ ev.pre.dayCount = "1"
    /\ mem.dayCount = 2
    /\ store.lastVisitDate = ISODate(2)
    /\ store.dayCount = "2"

\* C5 as stated: on one calendar day the day count is incremented at most
\* once, and every load after the first one of that day leaves dayCount and
\* the persisted last-visit date (and day count) as it found them, also when
\* a storage write fails.
C5_LaterLoadsChangeNothing ==
    /\ ev.op = "loadInc" => ~ev.again
    /\ (ev.op = "load" /\ ev.later) =>
          /\ store.lastVisitDate = ev.pre.lastVisitDate
          /\ store.dayCount = ev.pre.dayCount
          /\ ev.ok => mem.dayCount = StoredCount(ev.pre.dayCount)

\* C5 (amended): on one calendar day an incremented day count is persisted at
\* most once, and every load that finds today's date persisted as the
\* last-visit date leaves the persisted date and day count as it found them
\* and, when it completes, shows that day count; this holds also when
\* storage writes fail.
C5_OncePerDay ==
    /\ ev.op = "loadInc" => ~ev.again
    /\ (ev.op = "load" /\ ev.pre.lastVisitDate = ev.today) =>
          /\ store.lastVisitDate = ev.pre.lastVisitDate
          /\ store.dayCount = ev.pre.dayCount
          /\ ev.ok => mem.dayCount = StoredCount(ev.pre.dayCount)

\* C5 witness: a second load on a day whose first load incremented the count
\* to 2 finds today's date and shows 2.
C5_SecondLoadSameDay ==
    /\ ev.op = "load" /\ ev.ok /\ ev.later
    /\ ev.dayIdx \in loadDays.inc
    /\ ev.pre.lastVisitDate = ev.today
    /\ ev.pre.dayCount = "2"
    /\ mem.dayCount = 2

\* C6 (credential rollback): when updateApiKey(B) returns false the
\* persisted credential is what it was before the call (the old key, or no
\* key); when it returns true the persisted credential is B.
C6_CredentialRollback ==
    ev.op = "updateApiKey" =>
       /\ ev.result = "false" => store.apiKey = ev.preKey
       /\ ev.result = "true" => store.apiKey = ev.newKey

\* C6 witness: KEY_A is stored, updateApiKey("KEY_B") fails its validation
\* and returns false with KEY_A stored again.
C6_RolledBackToOldKey ==
    /\ ev.op = "updateApiKey"
    /\ ev.result = "false"
    /\ ev.rolledBack
    /\ ev.preKey = "KEY_A"
    /\ ev.newKey = "KEY_B"
    /\ store.apiKey = "KEY_A"

\* C7 (soft reset scope): after softReset has resolved, the chat log is
\* empty and chatCount is 0 in memory and, its writes stored, in storage;
\* mission history, day count, last-visit date, emotion, AI toggle and
\* credential are as before the call, in memory and in storage.
C7_SoftResetScope ==
    ev.op = "softReset" =>
       /\ mem.chatHistory = << >>
       /\ mem.chatCount = 0
       /\ ev.ok => (store.chatHistory = ABSENT /\ store.chatCount = "0")
       /\ mem.missionHistory = ev.preMem.missionHistory
       /\ mem.dayCount = ev.preMem.dayCount
       /\ mem.haruEmotion = ev.preMem.haruEmotion
       /\ mem.useAiResponse = ev.preMem.useAiResponse
       /\ \A k \in STORAGE_KEYS \ {"chatHistory", "chatCount"} :
             store[k] = ev.preStore[k]

\* C7 witness: a soft reset after a mission was recorded keeps the mission,
\* in memory and in storage.
C7_MissionSurvivesSoftReset ==
    /\ ev.op = "softReset" /\ ev.ok
    /\ Len(ev.preMem.missionHistory) = 1
    /\ Len(mem.missionHistory) = 1
    /\ store.missionHistory = JSONstringify(mem.missionHistory)
    /\ store.chatCount = "0"

\* C8 (hard reset): after hardReset has resolved with its writes stored,
\* every field in memory has its default and the store holds nothing but
\* the day count 1 and today as the last-visit date; a load cycle later
\* that day yields dayCount 1.
C8_HardResetDefaults ==
    /\ (ev.op = "hardReset" /\ ev.ok) =>
          /\ mem.dayCount = 1
          /\ mem.chatHistory = << >>
          /\ mem.missionHistory = << >>
          /\ mem.haruEmotion = "neutral"
          /\ mem.chatCount = 0
          /\ mem.useAiResponse = TRUE
          /\ mem.geminiStatus = "idle"
          /\ store = [EmptyStore EXCEPT !.dayCount = "1", !.lastVisitDate = ev.today]
    /\ (ev.op = "load" /\ ev.ok /\ ev.today \in loadDays.hard) => mem.dayCount = 1

\* C8 witness: on the second day the count was incremented, a hard reset
\* followed, and a load cycle later that day shows dayCount 1 with nothing
\* stored but the count and the date.
C8_ReloadAfterHardReset ==
    /\ ev.op = "load" /\ ev.ok
    /\ ev.today = ISODate(1)
    /\ ev.today \in loadDays.hard
    /\ ev.dayIdx \in loadDays.inc
    /\ mem.dayCount = 1
    /\ store = [EmptyStore EXCEPT !.dayCount = "1", !.lastVisitDate = ISODate(1)]

\* C9 (mission recording): every completeMission call puts exactly one new
\* entry in front of the mission history, in memory and (its write stored)
\* in storage, and all ids in the mission history are pairwise distinct.
C9_MissionRecording ==
    /\ ev.op = "completeMission" =>
          /\ Len(mem.missionHistory) = Len(ev.preMem.missionHistory) + 1
          /\ Tail(mem.missionHistory) = ev.preMem.missionHistory
          /\ ev.ok => store.missionHistory = JSONstringify(mem.missionHistory)
    /\ \A i, j \in 1..Len(mem.missionHistory) :
          i # j => mem.missionHistory[i].id # mem.missionHistory[j].id

\* C10 (no send before the load): a sendUserMessage call made while
\* isInitialized is false leaves the chat log, chatCount and the store as
\* they were and starts no turn.
C10_NoSendBeforeLoad ==
    (ev.op = "sendCall" /\ ~ev.init) =>
       /\ mem.chatHistory = ev.preMem.chatHistory
       /\ mem.chatCount = ev.preMem.chatCount
       /\ store = ev.preStore
       /\ turns = {}

\* The replies of the fallback pool.
FallbackPool == { FALLBACK_MESSAGES[i] : i \in 1..Len(FALLBACK_MESSAGES) }

\* C11 (no credential): with no stored key and no build-time key, a
\* getGeminiResponse call that could read the store sends no request, returns
\* the fixed not-configured reply with state neutral and reports health error.
C11_NotConfigured ==
    (/\ gw.pc = "done" /\ gw.path # "key read failed"
     /\ ~Truthy(gw.stored) /\ ~Truthy(defaultKey)) =>
       /\ ~gw.sent
       /\ gw.res.reply = [text |-> NOT_CONFIGURED_TEXT, state |-> "neutral"]
       /\ gw.res.status = "error"
       /\ ~gw.res.threw

\* C11 witness: a call without any key has returned the fixed reply.
C11_NoKeyReply ==
    /\ gw.pc = "done"
    /\ gw.path = "no key"
    /\ gw.stored = NULL
    /\ defaultKey = ""
    /\ ~gw.sent
    /\ gw.res.reply.text = NOT_CONFIGURED_TEXT

\* C12 (HTTP failure): for every non-success status s the service answers
\* with, the call returns a reply of the fallback pool and the last health
\* status is overloaded if and only if s = 503, and error otherwise.
C12_HttpFailureHealth ==
    (gw.pc = "done" /\ gw.status \in HttpStatuses \ {200}) =>
       /\ ~gw.res.threw
       /\ gw.res.reply \in FallbackPool
       /\ (gw.res.status = "overloaded") <=> (gw.status = 503)
       /\ gw.status # 503 => gw.res.status = "error"

\* C13 (deadline): a call that has sent its request is never pending past
\* the 15 s deadline, and when the deadline expires first the call returns a
\* reply of the fallback pool with health error and the timeout detail.
C13_BoundedByDeadline ==
    /\ (gw.sent /\ gw.pc # "done") => gw.elapsed <= TIMEOUT_MS
    /\ (gw.pc = "done" /\ gw.path = "abort") =>
          /\ gw.res.reply \in FallbackPool
          /\ gw.res.status = "error"
          /\ gw.res.error = "Request timed out after 15s."

\* C14 (malformed reply): when the service answers 200 with a generated text
\* that is not the structured object, or whose emotion is not one of the
\* five, the last health status is error.
C14_MalformedIsError ==
    (/\ gw.pc = "done" /\ gw.path = "generated text"
     /\ (gw.payload.parse # "object" \/ gw.payload.emotion \notin HARU_EMOTIONS)) =>
       gw.res.status = "error"

\* C15 as stated: when the generated text parses as an object, the state is
\* its emotion if that is one of the five and neutral otherwise, and the
\* text is its response field verbatim if present, the filler if absent.
C15_ResponseVerbatimIfPresent ==
    (gw.pc = "done" /\ gw.path = "generated text" /\ gw.payload.parse = "object") =>
       /\ gw.res.reply.state =
             IF gw.payload.emotion \in HARU_EMOTIONS THEN gw.payload.emotion ELSE "neutral"
       /\ gw.res.reply.text =
             IF gw.payload.response # NULL THEN gw.payload.response ELSE FILLER_TEXT

\* C15 (amended): as above, but the text is the response field verbatim if
\* it is present and not empty, and the filler if it is absent or empty.
C15_ReplyNormalization ==
    (gw.pc = "done" /\ gw.path = "generated text" /\ gw.payload.parse = "object") =>
       /\ gw.res.reply.state =
             IF gw.payload.emotion \in HARU_EMOTIONS THEN gw.payload.emotion ELSE "neutral"
       /\ gw.res.reply.text =
             IF gw.payload.response \notin {NULL, ""} THEN gw.payload.response
             ELSE FILLER_TEXT

\* C15 witness: an object with a known emotion and a response text is
\* returned as it is.
C15_KnownEmotionKept ==
    /\ gw.pc = "done"
    /\ gw.path = "generated text"
    /\ gw.payload.parse = "object"
    /\ gw.payload.emotion = "very_shy"
    /\ gw.payload.response = REPLY_TEXT
    /\ gw.res.reply = [text |-> REPLY_TEXT, state |-> "very_shy"]

C17_AiDisabledBypass ==
    /\ ev.op = "sendCall" => \A t \in turns : t.useAi = ev.preMem.useAiResponse
    /\ \A t \in turns : ~t.useAi => t.pc \notin GatewaySteps /\ t.stored = NULL
    /\ (ev.op = "botReply" /\ ~ev.useAi) =>
          /\ mem.geminiStatus = "idle"
          /\ mem.lastGeminiError = "AI is disabled"
          /\ mem.chatHistory[Len(mem.chatHistory)].sender = "bot"
          /\ mem.chatHistory[Len(mem.chatHistory)].text = LOCAL_TEXT

\* C17 witness: the toggle was set to false and stored, and a turn has got
\* the local reply.
C17_LocalReplyGiven ==
    /\ ev.op = "botReply" /\ ~ev.useAi
    /\ ~mem.useAiResponse
    /\ store.useAiResponse = "false"
    /\ mem.geminiStatus = "idle"
    /\ mem.chatHistory[Len(mem.chatHistory)].text = LOCAL_TEXT

\* C18 (no rejection): sendUserMessage and updateApiKey, like the other
\* operations, resolve on every path, also when a storage request throws;
\* updateApiKey resolves with a boolean.
C18_NoOperationRejects ==
    /\ ev.op = "send" => ~ev.rejected
    /\ ev.op = "updateApiKey" => ev.result \in {"true", "false"}

\* C19 (a turn ends with a reply): every sendUserMessage call that has
\* ended has left isAiThinking false and exactly one bot message after the
\* user's message, also when a storage write failed.
C19_TurnEndsWithReply ==
    ev.op = "send" =>
       /\ ~mem.isAiThinking
       /\ ev.t.bot # NoMsg
       /\ mem.chatHistory = ev.t.base \o << ev.t.msg, ev.t.bot >>

\* C20 (durability ordering): while getGeminiResponse runs for a turn, the
\* chat log with the user's message and the incremented chat count are in
\* the store; when sendUserMessage resolves, the chat log with the bot's
\* message is in the store.
C20_DurabilityOrdering ==
    /\ \A t \in turns :
          t.pc \in GatewaySteps =>
             /\ store.chatHistory = JSONstringify(t.newHistory)
             /\ store.chatCount = NumToString(mem.chatCount)
    /\ (ev.op = "send" /\ ~ev.rejected) =>
          store.chatHistory = JSONstringify(Append(ev.t.newHistory, ev.t.bot))

\* C20 witness: a turn that went through the gateway has resolved and the
\* store holds both of its messages.
C20_TurnStoredAfterGateway ==
    /\ ev.op = "send" /\ ~ev.rejected
    /\ ev.t.useAi
    /\ ev.t.status = 200
    /\ Len(ev.t.newHistory) = 1
    /\ store.chatHistory = JSONstringify(<< ev.t.msg, ev.t.bot >>)
    /\ store.chatCount = "1"

\* C21 (validated credential): updateApiKey returns true only when its
\* probe got a successful reply from the service: the health signal of the
\* probe is ok and the reply is not one of the fallback pool.
C21_SuccessOnlyIfValidated ==
    (ev.op = "updateApiKey" /\ ev.result = "true") =>
       /\ mem.geminiStatus = "ok"
       /\ ev.reply \notin { m.text : m \in FallbackPool }

\* C22 (first run): a load cycle that finds no last-visit date, and whose
\* writes are stored, ends with dayCount 1 in memory and in storage and with
\* today as the persisted last-visit date, whatever else is stored (a
\* stored day count that is not a number aside: C27).
C22_FirstRunDefaults ==
    (/\ ev.op = "load" /\ ev.ok /\ ~Truthy(ev.pre.lastVisitDate)
     /\ ParseInt(ev.pre.dayCount) # NaN \/ ~Truthy(ev.pre.dayCount)) =>
       /\ mem.dayCount = 1
       /\ store.dayCount = "1"
       /\ store.lastVisitDate = ev.today

\* C23 (the flag covers the turn): while a sendUserMessage call has not
\* resolved isAiThinking is true, so a log that ends with a user message
\* while isAiThinking is false has no turn pending.
C23_FlagCoversTurn ==
    /\ turns # {} => mem.isAiThinking
    /\ (/\ ~mem.isAiThinking
        /\ mem.chatHistory # << >>
        /\ mem.chatHistory[Len(mem.chatHistory)].sender = "user") => turns = {}

\* C24 (emotion follows the turn): haruEmotion is always one of the five
\* values; when a turn has resolved it is, in memory and (the turn's writes
\* stored) in storage, the state of the bot message the turn appended; and
\* it changes only when a bot reply arrives, in setHaruEmotion or in
\* hardReset.
C24_EmotionFollowsTurn ==
    /\ [](/\ mem.haruEmotion \in HARU_EMOTIONS
          /\ (ev.op = "send" /\ ev.t.bot # NoMsg) => mem.haruEmotion = ev.t.bot.state
          /\ (ev.op = "send" /\ ev.ok) => store.haruEmotion = ev.t.bot.state)
    /\ [][mem.haruEmotion' # mem.haruEmotion =>
             (ev'.op \in {"botReply", "setHaruEmotion"} \/ reset.pc = "h_rm")]_vars

\* C24 witness: the administrator set very_shy, then a turn resolved with a
\* reply in the state relaxed_smile, which is now the emotion in memory and
\* in storage.
C24_EmotionFromReply ==
    /\ ev.op = "send" /\ ev.ok
    /\ ops = 2
    /\ ev.t.bot.state = "relaxed_smile"
    /\ mem.haruEmotion = "relaxed_smile"
    /\ store.haruEmotion = "relaxed_smile"

\* The number of user messages in a chat log.
UserMessages(h) == Cardinality({ i \in 1..Len(h) : h[i].sender = "user" })

\* What a load cycle on day d reconstructs from the store s (emotions.ts
\* 96-128).
Reload(s, d) ==
    LoadFields(DefaultMem, s, LoadDayCount(s.dayCount, s.lastVisitDate, ISODate(d)))

\* C25 (chatCount counts user messages): from a fresh install on, with one
\* call at a time, chatCount equals the number of user messages in the chat
\* log, also right after a bot message was appended; and once every call
\* has resolved with its writes stored, the persisted count and log agree
\* with memory.
C25_CountsUserMessages ==
    /\ mem.chatCount = UserMessages(mem.chatHistory)
    /\ (Quiet /\ faults = 0) =>
          /\ Reload(store, day).chatCount = mem.chatCount
          /\ Reload(store, day).chatCount = UserMessages(Reload(store, day).chatHistory)

\* C25 witness: two turns have resolved: four messages, chatCount 2, in
\* memory and in storage.
C25_TwoTurnsCounted ==
    /\ Quiet /\ faults = 0
    /\ Len(mem.chatHistory) = 4
    /\ mem.chatCount = 2
    /\ store.chatCount = "2"
    /\ UserMessages(JSONparse(store.chatHistory)) = 2

\* C26 (memory-only degradation): whatever its storage requests did, an
\* operation that has ended has applied its change in memory: the turn has
\* appended its bot message, hardReset has reset every field, softReset has
\* cleared the log and the count, completeMission has added its entry.
C26_MemoryStillApplied ==
    /\ ev.op = "hardReset" =>
          /\ mem.dayCount = 1 /\ mem.chatHistory = << >> /\ mem.missionHistory = << >>
          /\ mem.haruEmotion = DEFAULT_EMOTION /\ mem.chatCount = 0
          /\ mem.useAiResponse = TRUE
    /\ ev.op = "send" =>
          /\ mem.chatHistory # << >>
          /\ mem.chatHistory[Len(mem.chatHistory)].sender = "bot"
    /\ ev.op = "softReset" => (mem.chatHistory = << >> /\ mem.chatCount = 0)
    /\ ev.op = "completeMission" =>
          Len(mem.missionHistory) = Len(ev.preMem.missionHistory) + 1

\* C27 (load falls back to defaults): whatever the store holds, a load cycle
\* ends with isInitialized true, dayCount an integer >= 1, chatCount an
\* integer >= 0, the emotion one of the five and the toggle a boolean; a
\* count that is not a number gives the default.
C27_LoadYieldsValidFields ==
    ev.op = "load" =>
       /\ mem.isInitialized
       /\ mem.dayCount \in Nat /\ mem.dayCount >= 1
       /\ mem.chatCount \in Nat
       /\ mem.haruEmotion \in HARU_EMOTIONS
       /\ mem.useAiResponse \in BOOLEAN
       /\ (ev.ok /\ ev.pre.chatCount = "abc") => mem.chatCount = 0

\* C28 (committed state survives a restart): whenever no call is in flight
\* and no storage request has failed, a load cycle on the same day would
\* reconstruct from the store the chat log, chatCount, mission history,
\* emotion, AI toggle and dayCount that are in memory.
C28_ReloadGivesMemory ==
    (Quiet /\ faults = 0) =>
       LET r == Reload(store, day)
       IN /\ r.chatHistory = mem.chatHistory
          /\ r.chatCount = mem.chatCount
          /\ r.missionHistory = mem.missionHistory
          /\ r.haruEmotion = mem.haruEmotion
          /\ r.useAiResponse = mem.useAiResponse
          /\ r.dayCount = mem.dayCount

\* C29 (a reset is not undone): when a turn that was awaiting its reply
\* while softReset or hardReset was called has resolved, and the reset too,
\* the persisted chat log equals the chat log in memory and holds none of
\* the messages the log had before the reset.
C29_ResetNotUndone ==
    (/\ ev.op = "send" /\ ev.t.cut
     /\ turns = {} /\ reset.pc = "none" /\ faults = 0) =>
       LET persisted == Reload(store, day).chatHistory
       IN /\ persisted = mem.chatHistory
          /\ \A i \in 1..Len(persisted), j \in 1..Len(ev.t.newHistory) :
                persisted[i] # ev.t.newHistory[j]

====
